---- MODULE Spec2Model ----
(***************************************************************************)
(* Model of src/autobrowser/behaviors/behaviorjs/twitterTimeline.js:       *)
(* the Timeline runner (timelineIterator, Tweet, addOutLinks), the Grid    *)
(* runner (iteratePins, consumePins, OutLinkCollector) and the step        *)
(* handles $WRIteratorHandler$ of both.                                    *)
(*                                                                         *)
(* Strings are sequences of one-character strings, so that trim(),         *)
(* startsWith() and URL parsing are computed character by character.       *)
(***************************************************************************)
EXTENDS Integers, Sequences, FiniteSets, TLC

VARIABLES
  mode,        \* which runner is installed in the page: "timeline", "grid", "collector"
  impl,        \* collector under test: "OLC" (class OutLinkCollector) or "TL" (outlinks/addOutLinks)
  outlinks,    \* the registry Set, in insertion order (window.$wbOutlinkSet$ / OLC.outlinks)
  urlProto,    \* protocol of the reused URL object (outLinkURLParser / OLC.urlParer)
  feed,        \* history: raw link texts fed to the collector, in call order
  how,         \* history: "none", "adds" (only addOutlink), "batch" (one addOutLinks), "mixed"
  opRaised,    \* history: some collector operation threw to its caller
  \* the step handle and the async generator behind it
  pc,          \* where the generator is suspended (or which statement it runs next)
  pending,     \* a $WRIteratorHandler$() call is awaiting the generator
  ret,         \* what the last settled $WRIteratorHandler$() call gave its caller
  raised,      \* history: a step rejected (the generator threw)
  afterDone,   \* history: a step was answered by the already completed generator
  \* the page of the Timeline runner
  loc,         \* element -> "absent", "timeline", "overlay" (inside #permalink-overlay), "gone"
  cls,         \* element -> classList of its div.content
  uri,         \* document.baseURI: 0 is the timeline's own, e the permalink of tweet e
  openReq,     \* a click on a tweet's container the page has not reacted to yet (0: none)
  closeReq,    \* a click on the dismiss control the page has not reacted to yet
  \* the Timeline traversal
  tweets,      \* timelineIterator's `tweets` array
  cur,         \* the Tweet being viewed (aTweet)
  snap,        \* visitThreadReplyTweets' snapShot
  idx,         \* visitThreadReplyTweets' i (1-based)
  visits,      \* history: element -> times it was marked and scrolled into view
  clicks,      \* history: number of clicks synthesized during the current step
  lastCanScroll, \* history: canScrollMore() of the page when the loop condition ran
  nestedExit,  \* history: how the last visitThreadReplyTweets returned, until the
               \* overlay is closed: "none", "first_empty", "no_button", "after_delay"
  signals,     \* history: values yielded since the current tweet was dequeued
  dismissed,   \* history: what closeFullTweetOverlay found for the current tweet:
               \* "none" (not called yet), "clicked", "absent" (no dismiss control)
  stepPlayed,  \* history: video.play() was called during the current/last step
  \* the page of the Grid runner and the Grid traversal
  nodeKey,     \* child node of the grid container -> key of its React instance;
               \* 0: not rendered, -1: rendered but without __reactInternalInstance
  pins,        \* currentPostRows / renderedPins: sequence of [node, key]
  gi,          \* consumePins' i (1-based)
  seenPins,    \* the seenPins Set
  phase,       \* 1: first do-while of iteratePins, 2: the second
  yielded,     \* history: keys of the records yielded to the host
  yieldedTwice, \* history: keys yielded when they had been yielded before
  emptyRun,    \* history: number of consecutive empty passes up to now
  container,   \* the node document.querySelector(gridContainer) finds, against the
               \* parent of the first grid item: "match", "mismatch"; "replaced"
               \* once the page put another container in place of the resolved one
  staleRead,   \* history: a pass read the child nodes of a replaced container
  \* one call of clickAndWaitFor(elem, predicate), taken on its own
  cwElem,      \* its elem argument: "null" or "elem"
  cwPred,      \* the location its predicate waits for (0: the timeline's own,
               \* e: the permalink of tweet e)
  timer,       \* the interval of waitForPredicate is armed
  evals,       \* history: number of times the predicate was evaluated
  cwResult,    \* what the call resolved to: "none" (still pending), "true", "false"
  \* calls of $WRIteratorHandler$() made while an earlier call has not resolved
  queued,      \* number of next() requests waiting in the generator's queue
  overtaken    \* history: number of older requests still waiting when the
               \* generator took up the request it served last

colVars == <<impl, outlinks, urlProto, feed, how, opRaised>>
stepVars == <<pc, pending, ret, raised, afterDone>>
pageVars == <<loc, cls, uri, openReq, closeReq>>
tlVars == <<tweets, cur, snap, idx, visits, clicks, lastCanScroll,
            stepPlayed, nestedExit, signals, dismissed>>
gridVars == <<nodeKey, pins, gi, seenPins, phase, yielded, yieldedTwice, emptyRun,
              container, staleRead>>
cwVars == <<cwElem, cwPred, timer, evals, cwResult>>
hostVars == <<queued, overtaken>>
vars == <<mode, colVars, stepVars, pageVars, tlVars, gridVars, cwVars, hostVars>>

-----------------------------------------------------------------------------
(* Strings *)

S_empty == <<>>
S_space == <<" ">>
S_https_a == <<"h","t","t","p","s",":","/","/","x",".","c","o","m","/","a">>
S_https_b == <<"h","t","t","p","s",":","/","/","x",".","c","o","m","/","b">>
S_https_b_padded == <<" "," ">> \o S_https_b \o <<" "," ">>
S_javascript == <<"j","a","v","a","s","c","r","i","p","t",":","e","v","i","l","(",")">>
S_http_nohost == <<"h","t","t","p",":">>
S_HTTP_x == <<"H","T","T","P",":","/","/","x">>
S_brace == <<"{","x">>

LowerAlpha == {"a","b","c","e","f","h","i","j","l","m","o","p","r","s","t","v","w","x"}
UpperAlpha == {"H","T","P","S"}
Digits == {"0","1","2","3","4","5","6","7","8","9"}

IsSpace(c) == c = " "
IsAlpha(c) == c \in LowerAlpha \cup UpperAlpha
Lower(c) == CASE c = "H" -> "h" [] c = "T" -> "t" [] c = "P" -> "p" [] c = "S" -> "s"
              [] OTHER -> c

RECURSIVE TrimStart(_)
TrimStart(s) == IF s # <<>> /\ IsSpace(Head(s)) THEN TrimStart(Tail(s)) ELSE s

RECURSIVE TrimEnd(_)
TrimEnd(s) ==
  IF s # <<>> /\ IsSpace(s[Len(s)]) THEN TrimEnd(SubSeq(s, 1, Len(s) - 1)) ELSE s

\* trimStart() in place of trim()
TrimStartOnly(s) == TrimStart(s)

\* String.prototype.trim()
Trim(s) == TrimEnd(TrimStart(s))

\* String.prototype.startsWith(p)
StartsWith(s, p) == Len(p) <= Len(s) /\ SubSeq(s, 1, Len(p)) = p

SeqToSet(s) == {s[i] : i \in 1..Len(s)}

-----------------------------------------------------------------------------
(* The URL object: `parser.href = test` either throws and leaves the object *)
(* as it was, or succeeds and sets protocol to the lower-cased scheme + ":". *)

IsSchemeChar(c) == IsAlpha(c) \/ c \in Digits \/ c \in {"+", "-", "."}

\* index of the first character that cannot continue a scheme, Len(s)+1 if none
RECURSIVE SchemeStop(_, _)
SchemeStop(s, i) ==
  IF i > Len(s) \/ ~IsSchemeChar(s[i]) THEN i ELSE SchemeStop(s, i + 1)

LowerStr(s) == [i \in 1..Len(s) |-> Lower(s[i])]

SpecialSchemes == { <<"h","t","t","p">>, <<"h","t","t","p","s">>, <<"f","t","p">>,
                    <<"w","s">>, <<"w","s","s">> }

RECURSIVE SkipSlashes(_)
SkipSlashes(s) ==
  IF s # <<>> /\ Head(s) \in {"/", "\\"} THEN SkipSlashes(Tail(s)) ELSE s

\* the authority: everything up to the first "/", "\", "?" or "#"
RECURSIVE Authority(_)
Authority(s) ==
  IF s = <<>> \/ Head(s) \in {"/", "\\", "?", "#"} THEN <<>>
  ELSE <<Head(s)>> \o Authority(Tail(s))

RECURSIVE UpTo(_, _)
UpTo(s, c) == IF s = <<>> \/ Head(s) = c THEN <<>> ELSE <<Head(s)>> \o UpTo(Tail(s), c)

ForbiddenHostChars == {" ", "<", ">", "^", "|", "[", "]", "%", "@"}

HostPortOk(a) ==
  LET host == UpTo(a, ":")
      port == IF Len(host) < Len(a) THEN SubSeq(a, Len(host) + 2, Len(a)) ELSE <<>>
  IN  /\ host # <<>>
      /\ SeqToSet(host) \cap ForbiddenHostChars = {}
      /\ SeqToSet(port) \subseteq Digits

\* Parsing without a base URL. [ok |-> FALSE] is the TypeError of the href setter.
URLParse(s) ==
  LET stop == SchemeStop(s, 1) IN
  IF s = <<>> \/ ~IsAlpha(s[1]) \/ stop > Len(s) \/ s[stop] # ":"
  THEN [ok |-> FALSE, protocol |-> <<>>]
  ELSE LET scheme == LowerStr(SubSeq(s, 1, stop - 1))
           rest == SubSeq(s, stop + 1, Len(s))
       IN  IF scheme \in SpecialSchemes /\ ~HostPortOk(Authority(SkipSlashes(rest)))
           THEN [ok |-> FALSE, protocol |-> <<>>]
           ELSE [ok |-> TRUE, protocol |-> scheme \o <<":">>]

AboutProtocol == <<"a","b","o","u","t",":">>

-----------------------------------------------------------------------------
(* OutLinkCollector (Grid runner) and outlinks/addOutLinks (Timeline runner) *)

\* this.ignored
ignored ==
  << <<"a","b","o","u","t",":">>, <<"d","a","t","a",":">>,
     <<"m","a","i","l","t","o",":">>,
     <<"j","a","v","a","s","c","r","i","p","t",":">>, <<"j","s",":">>,
     <<"{">>, <<"*">>, <<"f","t","p",":">>, <<"t","e","l",":">> >>

\* this.good / goodSchemes
good == { <<"h","t","t","p",":">>, <<"h","t","t","p","s",":">> }

\* the while (i--) loop over the ignore prefixes, from the last to the first
RECURSIVE PrefixLoop(_, _, _)
PrefixLoop(test, list, i) ==
  IF i = 0 THEN FALSE
  ELSE IF StartsWith(test, list[i]) THEN TRUE ELSE PrefixLoop(test, list, i - 1)

\* return !good[parser.protocol]: the parsed flag is not consulted, so after a
\* failed assignment the protocol of the previous link decides
ParseCheckStale(test, proto) ==
  LET p == URLParse(test)
      after == IF p.ok THEN p.protocol ELSE proto
  IN  [ignore |-> ~(after \in good), proto |-> after]

\* the try { parser.href = test } catch { parsed = false } block and the
\* return !(parsed && good[parser.protocol]); proto is the URL object's protocol
\* before the assignment
ParseCheck(test, proto) ==
  LET p == URLParse(test)
      after == IF p.ok THEN p.protocol ELSE proto
  IN  [ignore |-> ~(p.ok /\ after \in good), proto |-> after]

\* OutLinkCollector.shouldIgnore
shouldIgnore(test, proto) ==
  IF PrefixLoop(test, ignored, Len(ignored))
  THEN [ignore |-> TRUE, proto |-> proto]
  ELSE ParseCheck(test, proto)

\* shouldIgnoreLink with neither the prefix loop nor the scheme test:
\* return !parsed
shouldIgnoreLinkParsedOnly(test, proto) ==
  LET p == URLParse(test)
  IN  [ignore |-> ~p.ok, proto |-> IF p.ok THEN p.protocol ELSE proto]

\* shouldIgnoreLink of the Timeline runner: `let ignored = false; let i =
\* ignored.length;` makes i undefined, `i--` is NaN, so the prefix loop runs
\* zero times and only the parse check decides.
shouldIgnoreLink(test, proto) ==
  IF PrefixLoop(test, ignored, 0)
  THEN [ignore |-> TRUE, proto |-> proto]
  ELSE ParseCheck(test, proto)

Filter(which, test, proto) ==
  IF which = "OLC" THEN shouldIgnore(test, proto) ELSE shouldIgnoreLink(test, proto)

\* `if (href && !outlinks.has(href) && !shouldIgnore(href)) outlinks.add(href)`
\* on the state st = [reg, proto]
AddHref(which, st, href) ==
  IF href = <<>> \/ href \in SeqToSet(st.reg) THEN st
  ELSE LET r == Filter(which, href, st.proto)
       IN  [reg |-> IF r.ignore THEN st.reg ELSE Append(st.reg, href),
            proto |-> r.proto]

\* addOutLinks: `i = outlinks.length; while (i--)` walks the batch from its last
\* element to its first; each element's href is trimmed
RECURSIVE AddOutLinksFrom(_, _, _, _)
AddOutLinksFrom(which, st, hrefs, i) ==
  IF i = 0 THEN st
  ELSE AddOutLinksFrom(which, AddHref(which, st, Trim(hrefs[i])), hrefs, i - 1)

addOutLinks(which, st, hrefs) == AddOutLinksFrom(which, st, hrefs, Len(hrefs))

\* outLinkArray / toJSON / valueOf: Array.from(this.outlinks)
outLinkArray == outlinks

-----------------------------------------------------------------------------
(* Driving the collectors directly (mode = "collector") *)

MaxFeed == 4
MaxElems == 3
MaxNodes == 2
MaxKeys == 2
MaxPolls == 3
MaxQueued == 1

Elems == 1..MaxElems
Nodes == 1..MaxNodes
Keys == 1..MaxKeys

IdleGrid ==
  /\ nodeKey = [n \in Nodes |-> 0]
  /\ pins = <<>> /\ gi = 0 /\ seenPins = {} /\ phase = 1
  /\ yielded = {} /\ yieldedTwice = {} /\ emptyRun = 0
  /\ container = "match" /\ staleRead = FALSE

\* no call of clickAndWaitFor under observation
IdleClick ==
  /\ cwElem = "null" /\ cwPred = 0 /\ timer = FALSE /\ evals = 0 /\ cwResult = "none"

IdleHost == queued = 0 /\ overtaken = 0

NoTweet == [elem |-> 0, zeroMarker |-> FALSE, threadLink |-> FALSE,
            hasReplys |-> FALSE, apartThread |-> FALSE, video |-> "none"]
NoRet == [kind |-> "none", done |-> FALSE, wait |-> FALSE]

\* the traversal variables while no runner is installed
IdleTraversal ==
  /\ pc = "start" /\ pending = FALSE /\ ret = NoRet /\ raised = FALSE /\ afterDone = FALSE
  /\ loc = [e \in Elems |-> "absent"]
  /\ cls = [e \in Elems |-> {"content"}]
  /\ uri = 0 /\ openReq = 0 /\ closeReq = FALSE
  /\ tweets = <<>> /\ cur = NoTweet /\ snap = <<>> /\ idx = 0
  /\ visits = [e \in Elems |-> 0] /\ clicks = 0
  /\ lastCanScroll = FALSE /\ stepPlayed = FALSE
  /\ nestedExit = "none" /\ signals = 0 /\ dismissed = "none"
  /\ IdleGrid

\* link texts a candidate can carry: the href of an <a>/<area> element, or a string
LinkTexts == { S_empty, S_space, S_https_a, S_https_b_padded, S_javascript,
               S_http_nohost, S_HTTP_x, S_brace }

\* an HTMLAnchorElement without href attribute has href === ""
AddInputs == [kind : {"str", "elem"}, href : LinkTexts]

RECURSIVE SeqsUpTo(_, _)
SeqsUpTo(S, n) ==
  IF n = 0 THEN {<<>>}
  ELSE LET shorter == SeqsUpTo(S, n - 1)
       IN  shorter \cup {Append(q, x) : q \in {r \in shorter : Len(r) = n - 1}, x \in S}

Batches(n) == SeqsUpTo(LinkTexts, n) \ {<<>>}

InitCollector ==
  /\ mode = "collector"
  /\ impl \in {"OLC", "TL"}
  /\ outlinks = <<>>
  /\ urlProto = AboutProtocol
  /\ feed = <<>>
  /\ how = "none"
  /\ opRaised = FALSE
  /\ IdleTraversal
  /\ IdleClick
  /\ IdleHost

\* OutLinkCollector.addOutlink(elemOrString):
\*   const href = (elemOrString.href || elemOrString).trim();
\* a string has no href property; an element whose href is "" falls through to
\* the element itself, which has no trim method: TypeError
addOutlinkThrows(c) == c.kind = "elem" /\ c.href = <<>>

OLC_addOutlink(c) ==
  /\ mode = "collector" /\ impl = "OLC"
  /\ Len(feed) < MaxFeed
  /\ feed' = Append(feed, c.href)
  /\ how' = IF how \in {"none", "adds"} THEN "adds" ELSE "mixed"
  /\ IF addOutlinkThrows(c)
     THEN /\ opRaised' = TRUE
          /\ UNCHANGED <<outlinks, urlProto>>
     ELSE LET st == AddHref("OLC", [reg |-> outlinks, proto |-> urlProto], Trim(c.href))
          IN  /\ outlinks' = st.reg
              /\ urlProto' = st.proto
              /\ UNCHANGED opRaised
  /\ UNCHANGED <<mode, cwVars, hostVars, gridVars, impl, stepVars, pageVars, tlVars>>

\* OutLinkCollector.addOutLinks(outlinks) on a list of elements with an href
OLC_addOutLinks(batch) ==
  /\ mode = "collector" /\ impl = "OLC"
  /\ LET st == addOutLinks("OLC", [reg |-> outlinks, proto |-> urlProto], batch)
     IN  /\ outlinks' = st.reg
         /\ urlProto' = st.proto
  /\ feed' = feed \o batch
  /\ how' = IF how = "none" THEN "batch" ELSE "mixed"
  /\ UNCHANGED <<mode, cwVars, hostVars, gridVars, impl, opRaised, stepVars, pageVars, tlVars>>

\* addOutLinks(toAdd) of the Timeline runner
TL_addOutLinks(batch) ==
  /\ mode = "collector" /\ impl = "TL"
  /\ LET st == addOutLinks("TL", [reg |-> outlinks, proto |-> urlProto], batch)
     IN  /\ outlinks' = st.reg
         /\ urlProto' = st.proto
  /\ feed' = feed \o batch
  /\ how' = IF how = "none" THEN "batch" ELSE "mixed"
  /\ UNCHANGED <<mode, cwVars, hostVars, gridVars, impl, opRaised, stepVars, pageVars, tlVars>>

NextCollector ==
  \/ \E c \in AddInputs : OLC_addOutlink(c)
  \/ \E batch \in Batches(MaxFeed - Len(feed)) : OLC_addOutLinks(batch)
  \/ \E batch \in Batches(MaxFeed - Len(feed)) : TL_addOutLinks(batch)

SpecCollector == InitCollector /\ [][NextCollector]_vars

-----------------------------------------------------------------------------
(* Claims about the collectors *)

HasIgnoredPrefix(s) == \E i \in 1..Len(ignored) : StartsWith(s, ignored[i])

Admissible(s) ==
  /\ s # <<>>
  /\ ~HasIgnoredPrefix(s)
  /\ URLParse(s).ok
  /\ URLParse(s).protocol \in good

FedTrimmed == {Trim(feed[i]) : i \in 1..Len(feed)}

\* C7: the registry holds exactly the admissible trimmed link texts fed so far
\* (non-empty, no ignore prefix, parses to an http/https URL), each once.
C7_OutlinkAdmission ==
  mode = "collector" =>
    /\ SeqToSet(outlinks) = {s \in FedTrimmed : Admissible(s)}
    /\ Cardinality(SeqToSet(outlinks)) = Len(outlinks)

\* a state where accepted, prefix-rejected, scheme-rejected and unparseable
\* candidates have all been fed to the Timeline filter, whose prefix loop never runs
C7_Witness ==
  /\ mode = "collector" /\ impl = "TL"
  /\ {S_https_a, S_javascript, S_brace, S_http_nohost} \subseteq SeqToSet(feed)
  /\ outlinks = <<S_https_a>>

Scenario1 == <<S_https_a, S_https_a, S_javascript, S_https_b_padded>>

\* C8 (as stated): Scenario 1, fed in order by either operation, gives the
\* snapshot [a, b].
C8_Scenario1AsStated ==
  (impl = "OLC" /\ feed = Scenario1 /\ how \in {"adds", "batch"}) =>
    outLinkArray = <<S_https_a, S_https_b>>

\* C8 (amended): fed one at a time through addOutlink the snapshot is [a, b];
\* fed as one addOutLinks batch it holds the same two strings as [b, a].
C8_Scenario1 ==
  /\ (feed = Scenario1 /\ how = "adds") => outLinkArray = <<S_https_a, S_https_b>>
  /\ (feed = Scenario1 /\ how = "batch") => outLinkArray = <<S_https_b, S_https_a>>

C8_Witness == impl = "OLC" /\ feed = Scenario1 /\ how = "batch" /\ Len(outlinks) = 2

\* C9: no collector operation raises to its caller.
C9_NeverRaises == opRaised = FALSE

-----------------------------------------------------------------------------
(* The Timeline runner *)

Min(S) == CHOOSE m \in S : \A x \in S : m <= x

\* a set of elements as the ordered snapshot a query returns (document order)
RECURSIVE InOrder(_)
InOrder(S) == IF S = {} THEN <<>> ELSE <<Min(S)>> \o InOrder(S \ {Min(S)})

\* markElemAsVisited(elem): elem.classList.add('wrvistited'); classList is a set
markElemAsVisited(c) == c \cup {"wrvistited"}

\* contains(@class, "content") and not(contains(@class, "wrvisited")): the
\* marker spelled differently in the query than in markElemAsVisited
tweetXpathMatchesOtherMarker(c) == "content" \in c /\ "wrvisited" \notin c

\* the predicate of tweetXpath on a div.content:
\*   @class="content" and not(contains(@class, "wrvistited"))
tweetXpathMatches(c) == c = {"content"} /\ "wrvistited" \notin c

\* xpathQuerySelector(tweetXpath): every unvisited tweet of the document, the
\* tweets rendered inside #permalink-overlay included
TopQuery ==
  InOrder({e \in Elems : loc[e] \in {"timeline", "overlay"} /\ tweetXpathMatches(cls[e])})

\* xpathSnapShot(overlayTweetXpath, ...): //div[@id="permalink-overlay"] + tweetXpath
OverlayQuery ==
  InOrder({e \in Elems : loc[e] = "overlay" /\ tweetXpathMatches(cls[e])})

\* the a[href]/area[href] descendants of a tweet, by their href
LinkTable == << <<S_https_a>>, <<S_javascript, S_https_b>>, <<S_HTTP_x>> >>
LinksOf(e) == LinkTable[((e - 1) % Len(LinkTable)) + 1]

RECURSIVE LinksOfAll(_)
LinksOfAll(q) == IF q = <<>> THEN <<>> ELSE LinksOf(Head(q)) \o LinksOfAll(Tail(q))

\* this.fullTweetOverlay.querySelectorAll(outlinkSelector)
OverlayLinks == LinksOfAll(InOrder({e \in Elems : loc[e] = "overlay"}))

\* window.scrollY, window.innerHeight and the five extents canScrollMore compares
Geometries ==
  { [scrollY |-> 0, innerHeight |-> 2, bodyScroll |-> 2, bodyOffset |-> 2,
     docClient |-> 2, docScroll |-> 2, docOffset |-> 2],
    [scrollY |-> 0, innerHeight |-> 2, bodyScroll |-> 4, bodyOffset |-> 2,
     docClient |-> 2, docScroll |-> 2, docOffset |-> 2],
    [scrollY |-> 2, innerHeight |-> 2, bodyScroll |-> 4, bodyOffset |-> 4,
     docClient |-> 2, docScroll |-> 4, docOffset |-> 4],
    [scrollY |-> 1, innerHeight |-> 2, bodyScroll |-> 2, bodyOffset |-> 2,
     docClient |-> 2, docScroll |-> 2, docOffset |-> 4] }

Max2(a, b) == IF a >= b THEN a ELSE b

canScrollMore(g) ==
  g.scrollY + g.innerHeight <
    Max2(g.bodyScroll, Max2(g.bodyOffset, Max2(g.docClient,
      Max2(g.docScroll, g.docOffset))))

\* while (tweets.length > 0 && !canScrollMore())
timelineContinuesNegated(tw, g) == Len(tw) > 0 /\ ~canScrollMore(g)

\* the loop condition of timelineIterator: while (tweets.length > 0 && canScrollMore())
timelineContinues(tw, g) == Len(tw) > 0 /\ canScrollMore(g)

\* this._hasReplys = this.rplyButton.querySelector(noReplySpanSelector) != null
hasReplysWhenZero(zeroMarker) == zeroMarker

\* this._hasReplys = this.rplyButton.querySelector(noReplySpanSelector) == null:
\* the tweet has replies when span.ProfileTweet-actionCount--isZero is absent
hasReplys(zeroMarker) == ~zeroMarker

\* this._apartThread = this.tweet.querySelector(threadSelector) != null
apartOfThread(threadLink) == threadLink

\* Tweet.hasRepliedOrInThread
hasRepliedOrInThread(t) == t.hasReplys \/ t.apartThread

\* Tweet.hasVideo returning false for every tweet
hasVideoNever(v) == FALSE

\* Tweet.hasVideo: true when div.AdaptiveMedia-videoContainer exists; play() is
\* called only when the container holds a <video>
hasVideo(v) == v # "none"

\* the result of the next() during which the generator function returns
GeneratorReturn == [done |-> TRUE, value |-> "undefined"]

\* a next() on a generator that completed earlier resumes nothing
CompletedNextRestarts == [done |-> FALSE, value |-> "true"]

\* the result of next() on a generator that completed earlier (by returning or
\* by throwing)
CompletedNext == [done |-> TRUE, value |-> "undefined"]

\* $WRIteratorHandler$ of the Timeline runner: { done: next.done, wait: !!next.value }
\* wait: next.value !== undefined
TruthyDefined(v) == v # "undefined"

\* (!!value: the yielded values are true, false, a DOM node, or undefined)
Truthy(v) == v \in {"true", "node"}

HandlerResult(next) ==
  [kind |-> "value", done |-> next.done, wait |-> Truthy(next.value)]

\* $WRIteratorHandler$ of the Grid runner: return next.done (no wait field)
GridHandlerResult(next) == [kind |-> "value", done |-> next.done, wait |-> FALSE]

Resolve(next) ==
  /\ ret' = HandlerResult(next)
  /\ pending' = FALSE
  /\ UNCHANGED afterDone

\* a generator left suspended where it threw, to be resumed by the next next()
afterThrowSuspended(p) == p

\* an exception that leaves the generator function completes the generator
afterThrow(p) == "done"

\* the generator throws: the awaited next() rejects, and so does the step
Throw ==
  /\ pc' = afterThrow(pc)
  /\ ret' = [kind |-> "raise", done |-> FALSE, wait |-> FALSE]
  /\ pending' = FALSE
  /\ raised' = TRUE
  /\ UNCHANGED afterDone

Harvest(hrefs) ==
  LET st == addOutLinks("TL", [reg |-> outlinks, proto |-> urlProto], hrefs)
  IN  /\ outlinks' = st.reg
      /\ urlProto' = st.proto

colIdle == UNCHANGED <<impl, feed, how, opRaised>>

InitTimeline ==
  /\ mode = "timeline"
  /\ impl = "TL" /\ outlinks = <<>> /\ urlProto = AboutProtocol
  /\ feed = <<>> /\ how = "none" /\ opRaised = FALSE
  /\ pc = "start" /\ pending = FALSE /\ ret = NoRet /\ raised = FALSE /\ afterDone = FALSE
  /\ \E n \in 0..MaxElems :
       loc = [e \in Elems |-> IF e <= n THEN "timeline" ELSE "absent"]
  /\ cls = [e \in Elems |-> {"content"}]
  /\ uri = 0 /\ openReq = 0 /\ closeReq = FALSE
  /\ tweets = <<>> /\ cur = NoTweet /\ snap = <<>> /\ idx = 0
  /\ visits = [e \in Elems |-> 0] /\ clicks = 0
  /\ lastCanScroll = FALSE /\ stepPlayed = FALSE
  /\ nestedExit = "none" /\ signals = 0 /\ dismissed = "none"
  /\ IdleGrid
  /\ IdleClick
  /\ IdleHost

Running == mode = "timeline" /\ pending

\* the host driver calls $WRIteratorHandler$() and awaits it
HostStep ==
  /\ mode \in {"timeline", "grid"}
  /\ ~pending /\ queued = 0
  /\ pending' = TRUE
  /\ overtaken' = 0
  /\ stepPlayed' = FALSE
  /\ clicks' = 0
  /\ UNCHANGED <<mode, cwVars, queued, gridVars, colVars, pc, ret, afterDone, raised, pageVars, tweets, cur, snap,
                 idx, visits, lastCanScroll, nestedExit, signals, dismissed>>

\* let tweets = xpathQuerySelector(tweetXpath);
T_Start ==
  /\ Running /\ pc = "start"
  /\ tweets' = TopQuery
  /\ pc' = "loop"
  /\ UNCHANGED <<mode, cwVars, hostVars, gridVars, colVars, pending, ret, afterDone, raised, pageVars, cur, snap, idx, visits,
                 clicks, lastCanScroll, stepPlayed, nestedExit, signals, dismissed>>

\* what of a tweet's footer the constructor may find absent
TweetParts == {"none", "footer", "replyAction", "replyButton"}

\* while (tweets.length > 0) { aTweet = new Tweet(tweets.shift(), baseURI); ...
\*   await scrollIntoViewWithDelay(aTweet.tweet, 500);
\* The constructor marks the element first; this.footer.querySelector,
\* this.tRplyAct.querySelector and this.rplyButton.querySelector throw a
\* TypeError when the footer, the reply action or the reply button is absent.
T_Loop ==
  /\ Running /\ pc = "loop"
  /\ IF tweets = <<>>
     THEN /\ pc' = "requery"
          /\ UNCHANGED <<tweets, cls, cur, visits, pending, ret, afterDone, raised, signals, dismissed>>
     ELSE \E missing \in TweetParts, zeroMarker \in BOOLEAN, threadLink \in BOOLEAN :
            LET e == Head(tweets) IN
            /\ tweets' = Tail(tweets)
            /\ signals' = 0 /\ dismissed' = "none"
            /\ IF missing = "none"
               THEN /\ cls' = [cls EXCEPT ![e] = markElemAsVisited(@) \cup {"wr-debug-visited"}]
                    /\ cur' = [elem |-> e, zeroMarker |-> zeroMarker, threadLink |-> threadLink,
                               hasReplys |-> hasReplys(zeroMarker),
                               apartThread |-> apartOfThread(threadLink), video |-> "none"]
                    /\ visits' = [visits EXCEPT ![e] = @ + 1]
                    /\ pc' = "t_scrolled"
                    /\ UNCHANGED <<pending, ret, afterDone, raised>>
               ELSE /\ cls' = [cls EXCEPT ![e] = markElemAsVisited(@)]
                    /\ zeroMarker /\ threadLink
                    /\ Throw
                    /\ UNCHANGED <<cur, visits>>
  /\ UNCHANGED <<mode, cwVars, hostVars, gridVars, colVars, loc, uri, openReq, closeReq, snap, idx, clicks,
                 lastCanScroll, stepPlayed, nestedExit>>

\* collectOutlinksFrom(aTweet.tweet); if (aTweet.hasVideo()) yield true;
T_Scrolled ==
  /\ Running /\ pc = "t_scrolled"
  /\ Harvest(LinksOf(cur.elem))
  /\ \E v \in {"none", "container", "playable"} :
       /\ cur' = [cur EXCEPT !.video = v]
       /\ stepPlayed' = (stepPlayed \/ v = "playable")
       /\ IF hasVideo(v)
          THEN /\ pc' = "y_video"
               /\ Resolve([done |-> FALSE, value |-> "true"])
               /\ signals' = signals + 1
          ELSE /\ pc' = "view"
               /\ UNCHANGED <<pending, ret, afterDone, signals>>
  /\ UNCHANGED <<mode, cwVars, hostVars, gridVars, impl, feed, how, opRaised, raised, pageVars, tweets, snap, idx,
                 visits, clicks, lastCanScroll, nestedExit, dismissed>>

\* the generator is resumed after `yield true`
T_ResumeVideo ==
  /\ Running /\ pc = "y_video"
  /\ pc' = "view"
  /\ UNCHANGED <<mode, cwVars, hostVars, gridVars, colVars, pending, ret, afterDone, raised, pageVars, tlVars>>

\* openFullTweet: clickAndWaitFor(this.container, ...) clicks and starts polling
T_View ==
  /\ Running /\ pc = "view"
  /\ clicks' = clicks + 1
  /\ openReq' = cur.elem
  /\ pc' = "open_wait"
  /\ UNCHANGED <<mode, cwVars, hostVars, gridVars, colVars, pending, ret, afterDone, raised, loc, cls, uri, closeReq,
                 tweets, cur, snap, idx, visits, lastCanScroll,
                 stepPlayed, nestedExit, signals, dismissed>>

\* a poll of waitForPredicate finds document.baseURI.endsWith(permalinkPath);
\* then viewRepliesOrThread goes on to visitThreadReplyTweets, viewRegularTweet
\* yields false. The runner is built with debug = true: when
\* getElementById('permalink-overlay') is null the predicate throws inside the
\* timer callback (line 406), the interval stays armed and the promise pending.
T_OpenPoll ==
  /\ Running /\ pc = "open_wait"
  /\ uri = cur.elem
  /\ \E overlayRoot \in BOOLEAN :
       IF ~overlayRoot
       THEN UNCHANGED <<pc, pending, ret, afterDone, signals>>
       ELSE IF hasRepliedOrInThread(cur)
       THEN /\ pc' = "nested_begin"
            /\ UNCHANGED <<pending, ret, afterDone, signals>>
       ELSE /\ pc' = "y_regular"
            /\ Resolve([done |-> FALSE, value |-> "false"])
            /\ signals' = signals + 1
  /\ UNCHANGED <<mode, cwVars, hostVars, gridVars, colVars, raised, pageVars, tweets, cur, snap, idx, visits, clicks, lastCanScroll, stepPlayed,
                 nestedExit, dismissed>>

\* visitThreadReplyTweets: collectOutlinksFrom(overlay); first snapshot;
\* if (snapShot.snapshotLength === 0) return;
T_NestedBegin ==
  /\ Running /\ pc = "nested_begin"
  /\ Harvest(OverlayLinks)
  /\ snap' = OverlayQuery
  /\ idx' = 1
  /\ pc' = IF OverlayQuery = <<>> THEN "close" ELSE "nested_item"
  /\ nestedExit' = IF OverlayQuery = <<>> THEN "first_empty" ELSE "none"
  /\ UNCHANGED <<mode, cwVars, hostVars, gridVars, impl, feed, how, opRaised, pending, ret, afterDone, raised, pageVars, tweets,
                 cur, visits, clicks, lastCanScroll, stepPlayed, signals, dismissed>>

\* the inner while (i < len): mark, scroll with delay; after the last item the
\* overlay is queried again, the load-more button clicked if that query is empty
T_NestedItem ==
  /\ Running /\ pc = "nested_item"
  /\ IF idx <= Len(snap)
     THEN /\ cls' = [cls EXCEPT ![snap[idx]] =
                       markElemAsVisited(@) \cup {"wr-debug-visited-thread-reply"}]
          /\ visits' = [visits EXCEPT ![snap[idx]] = @ + 1]
          /\ pc' = "n_scrolled"
          /\ UNCHANGED <<snap, idx, clicks, nestedExit>>
     ELSE /\ snap' = OverlayQuery
          /\ idx' = 1
          /\ UNCHANGED <<cls, visits>>
          /\ IF OverlayQuery # <<>>
             THEN /\ pc' = "nested_item"
                  /\ UNCHANGED <<clicks, nestedExit>>
             ELSE \E showMore \in BOOLEAN :
                    IF showMore
                    THEN /\ clicks' = clicks + 1
                         /\ pc' = "n_delay"
                         /\ UNCHANGED nestedExit
                    ELSE /\ pc' = "close"
                         /\ nestedExit' = "no_button"
                         /\ UNCHANGED clicks
  /\ UNCHANGED <<mode, cwVars, hostVars, gridVars, colVars, pending, ret, afterDone, raised, loc, uri, openReq, closeReq,
                 tweets, cur, lastCanScroll, stepPlayed, signals, dismissed>>

\* after await scrollIntoViewWithDelay(aTweet): yield false
T_NestedScrolled ==
  /\ Running /\ pc = "n_scrolled"
  /\ pc' = "y_nested"
  /\ Resolve([done |-> FALSE, value |-> "false"])
  /\ signals' = signals + 1
  /\ UNCHANGED <<mode, cwVars, hostVars, gridVars, colVars, raised, pageVars, tweets, cur, snap, idx, visits, clicks, lastCanScroll, stepPlayed,
                 nestedExit, dismissed>>

\* resumed after the nested yield: i += 1
T_ResumeNested ==
  /\ Running /\ pc = "y_nested"
  /\ idx' = idx + 1
  /\ pc' = "nested_item"
  /\ UNCHANGED <<mode, cwVars, hostVars, gridVars, colVars, pending, ret, afterDone, raised, pageVars, tweets, cur, snap, visits,
                 clicks, lastCanScroll, stepPlayed, nestedExit, signals, dismissed>>

\* after await delay(): the overlay is queried once more; do ... while (length > 0)
T_NestedDelay ==
  /\ Running /\ pc = "n_delay"
  /\ snap' = OverlayQuery
  /\ idx' = 1
  /\ pc' = IF OverlayQuery = <<>> THEN "close" ELSE "nested_item"
  /\ nestedExit' = IF OverlayQuery = <<>> THEN "after_delay" ELSE "none"
  /\ UNCHANGED <<mode, cwVars, hostVars, gridVars, colVars, pending, ret, afterDone, raised, pageVars, tweets, cur, visits,
                 clicks, lastCanScroll, stepPlayed, signals, dismissed>>

\* resumed after viewRegularTweet's yield false
T_ResumeRegular ==
  /\ Running /\ pc = "y_regular"
  /\ pc' = "close"
  /\ UNCHANGED <<mode, cwVars, hostVars, gridVars, colVars, pending, ret, afterDone, raised, pageVars, tlVars>>

\* closeFullTweetOverlay: no dismiss control -> resolves false at once;
\* otherwise click it and poll for document.baseURI === this._baseURI
T_Close ==
  /\ Running /\ pc = "close"
  /\ \E dismiss \in BOOLEAN :
       IF dismiss
       THEN /\ clicks' = clicks + 1
            /\ closeReq' = TRUE
            /\ dismissed' = "clicked"
            /\ pc' = "close_wait"
       ELSE /\ pc' = "loop"
            /\ dismissed' = "absent"
            /\ UNCHANGED <<clicks, closeReq>>
  /\ snap' = <<>> /\ idx' = 0 /\ nestedExit' = "none"
  /\ UNCHANGED <<mode, cwVars, hostVars, gridVars, colVars, pending, ret, afterDone, raised, loc, cls, uri, openReq,
                 tweets, cur, visits, lastCanScroll, stepPlayed, signals>>

\* closeFullTweetOverlay's predicate taken as satisfied at the first poll
closeDoneAtOnce(u) == TRUE

\* closeFullTweetOverlay's predicate: document.baseURI === this._baseURI
closeDone(u) == u = 0

\* a poll of waitForPredicate finds the location back at the timeline's own
T_ClosePoll ==
  /\ Running /\ pc = "close_wait"
  /\ closeDone(uri)
  /\ pc' = "loop"
  /\ UNCHANGED <<mode, cwVars, hostVars, gridVars, colVars, pending, ret, afterDone, raised, pageVars, tlVars>>

\* tweets = xpathQuerySelector(tweetXpath); if (tweets.length === 0) await delay();
T_Requery ==
  /\ Running /\ pc = "requery"
  /\ tweets' = TopQuery
  /\ pc' = IF TopQuery = <<>> THEN "t_delay" ELSE "cond"
  /\ UNCHANGED <<mode, cwVars, hostVars, gridVars, colVars, pending, ret, afterDone, raised, pageVars, cur, snap, idx, visits,
                 clicks, lastCanScroll, stepPlayed, nestedExit, signals, dismissed>>

\* after await delay(): tweets = xpathQuerySelector(tweetXpath);
T_Delay ==
  /\ Running /\ pc = "t_delay"
  /\ tweets' = TopQuery
  /\ pc' = "cond"
  /\ UNCHANGED <<mode, cwVars, hostVars, gridVars, colVars, pending, ret, afterDone, raised, pageVars, cur, snap, idx, visits,
                 clicks, lastCanScroll, stepPlayed, nestedExit, signals, dismissed>>

\* } while (tweets.length > 0 && canScrollMore()); falling out completes the
\* generator, and the pending step gets done: true
T_Cond ==
  /\ Running /\ pc = "cond"
  /\ \E g \in Geometries :
       /\ lastCanScroll' = canScrollMore(g)
       /\ IF timelineContinues(tweets, g)
          THEN /\ pc' = "loop"
               /\ UNCHANGED <<pending, ret, afterDone>>
          ELSE /\ pc' = "done"
               /\ Resolve(GeneratorReturn)
  /\ UNCHANGED <<mode, cwVars, hostVars, gridVars, colVars, raised, pageVars, tweets, cur, snap, idx, visits, clicks,
                 stepPlayed, nestedExit, signals, dismissed>>

\* next() on the completed generator
StepDone ==
  /\ mode \in {"timeline", "grid"} /\ pending /\ pc = "done"
  /\ ret' = (IF mode = "timeline" THEN HandlerResult(CompletedNext)
                                  ELSE GridHandlerResult(CompletedNext))
  /\ pending' = FALSE
  /\ afterDone' = TRUE
  /\ UNCHANGED <<mode, cwVars, hostVars, gridVars, colVars, pc, raised, pageVars, tlVars>>

(* The page. It runs only while the traversal is suspended at an await or a *)
(* yield: the statements between two suspension points are one turn.        *)

Suspended ==
  pc \in {"start", "t_scrolled", "y_video", "open_wait", "n_scrolled", "y_nested",
          "n_delay", "y_regular", "close_wait", "t_delay", "done"}

PageRuns == mode = "timeline" /\ Suspended /\ (pending \/ queued = 0)

Fresh == {e \in Elems : loc[e] = "absent"}

\* the timeline lazily appends a tweet
PageAppend ==
  /\ PageRuns /\ Fresh # {}
  /\ loc' = [loc EXCEPT ![Min(Fresh)] = "timeline"]
  /\ UNCHANGED <<mode, cwVars, hostVars, gridVars, colVars, stepVars, cls, uri, openReq, closeReq, tlVars>>

\* the open overlay loads a reply / thread tweet
PageLoadReply ==
  /\ PageRuns /\ Fresh # {} /\ uri # 0
  /\ loc' = [loc EXCEPT ![Min(Fresh)] = "overlay"]
  /\ UNCHANGED <<mode, cwVars, hostVars, gridVars, colVars, stepVars, cls, uri, openReq, closeReq, tlVars>>

\* the page empties #permalink-overlay
PageClearOverlay ==
  /\ PageRuns /\ \E e \in Elems : loc[e] = "overlay"
  /\ loc' = [e \in Elems |-> IF loc[e] = "overlay" THEN "gone" ELSE loc[e]]
  /\ UNCHANGED <<mode, cwVars, hostVars, gridVars, colVars, stepVars, cls, uri, openReq, closeReq, tlVars>>

\* the page reacts to the click on a tweet: the location becomes its permalink
PageOpen ==
  /\ PageRuns /\ openReq # 0
  /\ uri' = openReq
  /\ openReq' = 0
  /\ UNCHANGED <<mode, cwVars, hostVars, gridVars, colVars, stepVars, loc, cls, closeReq, tlVars>>

\* the page reacts to the click on the dismiss control
PageClose ==
  /\ PageRuns /\ closeReq
  /\ uri' = 0
  /\ closeReq' = FALSE
  /\ UNCHANGED <<mode, cwVars, hostVars, gridVars, colVars, stepVars, loc, cls, openReq, tlVars>>

NextTimeline ==
  \/ HostStep
  \/ T_Start \/ T_Loop \/ T_Scrolled \/ T_ResumeVideo \/ T_View \/ T_OpenPoll
  \/ T_NestedBegin \/ T_NestedItem \/ T_NestedScrolled \/ T_ResumeNested
  \/ T_NestedDelay \/ T_ResumeRegular \/ T_Close \/ T_ClosePoll
  \/ T_Requery \/ T_Delay \/ T_Cond
  \/ StepDone
  \/ PageAppend \/ PageLoadReply \/ PageClearOverlay \/ PageOpen \/ PageClose

SpecTimeline == InitTimeline /\ [][NextTimeline]_vars

-----------------------------------------------------------------------------
(* The Grid runner *)

RenderedNodes == {n \in Nodes : nodeKey[n] # 0}

\* reactInstanceFromDOMElem(elem) returns elem[undefined] instead of throwing
reactInstanceNeverThrows(k) == FALSE

\* reactInstanceFromDOMElem(elem) throws when no own property of the node
\* starts with __reactInternalInstance
reactInstanceThrows(k) == k = -1

\* keySelector without seenPins.add(key)
keySelectorNoAdd(seen, key) == [select |-> key \notin seen, seen |-> seen]

\* keySelector: select = !seenPins.has(key); if (select) seenPins.add(key)
keySelector(seen, key) ==
  [select |-> key \notin seen, seen |-> seen \cup {key}]

\* reactInstancesFromElements(childNodes, keySelector) from child i on, with the
\* records selected and the keys seen so far; threw: a child had no handle
RECURSIVE reactInstancesFrom(_, _, _)
reactInstancesFrom(children, acc, seen) ==
  IF children = <<>> THEN [pins |-> acc, seen |-> seen, threw |-> FALSE]
  ELSE LET n == Head(children)
           k == nodeKey[n]
       IN  IF reactInstanceThrows(k) THEN [pins |-> acc, seen |-> seen, threw |-> TRUE]
           ELSE LET r == keySelector(seen, k)
                IN  reactInstancesFrom(Tail(children),
                      IF r.select THEN Append(acc, [node |-> n, key |-> k]) ELSE acc,
                      r.seen)

\* getRenderedPins(): pinContainerR.stateNode.childNodes in document order
getRenderedPins(seen) == reactInstancesFrom(InOrder(RenderedNodes), <<>>, seen)

GridResolve(next) ==
  /\ ret' = GridHandlerResult(next)
  /\ pending' = FALSE
  /\ UNCHANGED afterDone

GridHarvest(hrefs) ==
  LET st == addOutLinks("OLC", [reg |-> outlinks, proto |-> urlProto], hrefs)
  IN  /\ outlinks' = st.reg
      /\ urlProto' = st.proto

\* the pages a Grid session can start on: any rendering with distinct keys
GridRenderings ==
  {f \in [Nodes -> 0..MaxKeys] :
     \A n1, n2 \in Nodes : (n1 # n2 /\ f[n1] # 0) => f[n1] # f[n2]}

InitGrid ==
  /\ mode = "grid"
  /\ impl = "OLC" /\ outlinks = <<>> /\ urlProto = AboutProtocol
  /\ feed = <<>> /\ how = "none" /\ opRaised = FALSE
  /\ pc = "start" /\ pending = FALSE /\ ret = NoRet /\ raised = FALSE /\ afterDone = FALSE
  /\ loc = [e \in Elems |-> "absent"]
  /\ cls = [e \in Elems |-> {"content"}]
  /\ uri = 0 /\ openReq = 0 /\ closeReq = FALSE
  /\ tweets = <<>> /\ cur = NoTweet /\ snap = <<>> /\ idx = 0
  /\ visits = [e \in Elems |-> 0] /\ clicks = 0
  /\ lastCanScroll = FALSE /\ stepPlayed = FALSE
  /\ nestedExit = "none" /\ signals = 0 /\ dismissed = "none"
  /\ nodeKey \in GridRenderings
  /\ pins = <<>> /\ gi = 0 /\ seenPins = {} /\ phase = 1
  /\ yielded = {} /\ yieldedTwice = {} /\ emptyRun = 0
  /\ container \in {"match", "mismatch"} /\ staleRead = FALSE
  /\ IdleClick
  /\ IdleHost

GridRunning == mode = "grid" /\ pending

gridRest == UNCHANGED <<mode, cwVars, hostVars, impl, feed, how, opRaised, pageVars, tlVars>>

\* getGridContainer without the comparison of the two lookups
getGridContainerUnchecked(c) == FALSE

\* getGridContainer: container !== document.querySelector(selectors.gridContainer)
\* -> throw new Error('wrong container')
getGridContainerThrows(c) == c = "mismatch"

\* takes one pass and records it
TakePass(r) ==
  /\ pins' = r.pins
  /\ seenPins' = r.seen
  /\ gi' = 1
  /\ emptyRun' = IF r.pins = <<>> THEN emptyRun + 1 ELSE 0
  /\ staleRead' = (staleRead \/ container = "replaced")

\* iteratePins up to its first pass: getGridContainer() throws a TypeError when
\* no div[data-grid-item] exists and 'wrong container' when the two lookups
\* differ; reactInstanceFromDOMElem(container) throws without a handle
G_Start ==
  /\ GridRunning /\ pc = "start"
  /\ RenderedNodes = {} \/ ~getGridContainerThrows(container)
  /\ LET r == getRenderedPins(seenPins) IN
     IF RenderedNodes = {} \/ r.threw
     THEN /\ Throw
          /\ seenPins' = r.seen
          /\ UNCHANGED <<pins, gi, emptyRun, staleRead>>
     ELSE /\ TakePass(r)
          /\ pc' = "g_item"
          /\ UNCHANGED <<pending, ret, afterDone, raised>>
  /\ UNCHANGED <<nodeKey, container, phase, yielded, yieldedTwice, outlinks, urlProto>>
  /\ gridRest

\* getGridContainer(): container !== document.querySelector(gridContainer)
G_WrongContainer ==
  /\ GridRunning /\ pc = "start"
  /\ RenderedNodes # {} /\ getGridContainerThrows(container)
  /\ Throw
  /\ UNCHANGED <<gridVars, outlinks, urlProto>>
  /\ gridRest

\* consumePins: OLC.collectFrom(pin.node); await scrollIntoViewWithDelay(pin.node)
\* (for an exhausted list control returns to iteratePins)
G_Item ==
  /\ GridRunning /\ pc = "g_item"
  /\ IF gi <= Len(pins)
     THEN /\ GridHarvest(LinksOf(pins[gi].node))
          /\ pc' = "g_scrolled"
     ELSE /\ pc' = "g_pass"
          /\ UNCHANGED <<outlinks, urlProto>>
  /\ UNCHANGED <<gridVars, pending, ret, afterDone, raised>>
  /\ gridRest

\* yield pin.node
G_Yield ==
  /\ GridRunning /\ pc = "g_scrolled"
  /\ yielded' = yielded \cup {pins[gi].key}
  /\ yieldedTwice' = yieldedTwice \cup ({pins[gi].key} \cap yielded)
  /\ pc' = "g_yield"
  /\ GridResolve([done |-> FALSE, value |-> "node"])
  /\ UNCHANGED <<nodeKey, pins, gi, seenPins, phase, emptyRun, outlinks, urlProto, raised, container, staleRead>>
  /\ gridRest

\* a loop header that steps over every other pin
nextPinSkipping(i) == i + 2

\* consumePins: for (; i < numPins; ++i)
nextPin(i) == i + 1

\* resumed after the yield: ++i
G_Resume ==
  /\ GridRunning /\ pc = "g_yield"
  /\ gi' = nextPin(gi)
  /\ pc' = "g_item"
  /\ UNCHANGED <<nodeKey, pins, seenPins, phase, yielded, yieldedTwice, emptyRun, container, staleRead, outlinks, urlProto,
                 pending, ret, afterDone, raised>>
  /\ gridRest

\* a single drain: the first empty pass completes the generator
afterEmptyPassSingle(ph) == "done"

\* where an empty pass leads: out of the first do-while to the retry of line
\* 815 and the second do-while, out of the second to the end of iteratePins
afterEmptyPass(ph) == IF ph = 1 THEN "g_retry" ELSE "done"

\* currentPostRows = getRenderedPins(); } while (currentPostRows.length > 0);
\* leaving the first loop leads to the retry of line 815, leaving the second
\* completes the generator
G_Pass ==
  /\ GridRunning /\ pc = "g_pass"
  /\ LET r == getRenderedPins(seenPins) IN
     IF r.threw
     THEN /\ Throw
          /\ seenPins' = r.seen
          /\ UNCHANGED <<pins, gi, emptyRun, staleRead>>
     ELSE /\ TakePass(r)
          /\ IF r.pins # <<>>
             THEN /\ pc' = "g_item"
                  /\ UNCHANGED <<pending, ret, afterDone, raised>>
             ELSE IF afterEmptyPass(phase) = "g_retry"
                  THEN /\ pc' = "g_retry"
                       /\ UNCHANGED <<pending, ret, afterDone, raised>>
                  ELSE /\ pc' = "done"
                       /\ GridResolve(GeneratorReturn)
                       /\ UNCHANGED raised
  /\ UNCHANGED <<nodeKey, container, phase, yielded, yieldedTwice, outlinks, urlProto>>
  /\ gridRest

\* if (currentPostRows.length === 0) currentPostRows = getRenderedPins();
\* and the second do-while is entered
G_Retry ==
  /\ GridRunning /\ pc = "g_retry"
  /\ LET r == getRenderedPins(seenPins) IN
     IF r.threw
     THEN /\ Throw
          /\ seenPins' = r.seen
          /\ UNCHANGED <<pins, gi, emptyRun, phase, staleRead>>
     ELSE /\ TakePass(r)
          /\ phase' = 2
          /\ pc' = "g_item"
          /\ UNCHANGED <<pending, ret, afterDone, raised>>
  /\ UNCHANGED <<nodeKey, container, yielded, yieldedTwice, outlinks, urlProto>>
  /\ gridRest

(* The page of the Grid runner: the virtualized list renders, removes and *)
(* recycles child nodes while the traversal is suspended.                 *)

GridPageRuns ==
  /\ mode = "grid" /\ pc \in {"start", "g_scrolled", "g_yield", "done"}
  /\ (pending \/ queued = 0)

KeyFree(k) == \A n \in Nodes : nodeKey[n] # k

pageRest == UNCHANGED <<mode, cwVars, hostVars, colVars, stepVars, pageVars, tlVars, pins, gi, seenPins,
                        phase, yielded, yieldedTwice, emptyRun, staleRead>>

\* a record is rendered into a free node, or a rendered node is recycled for
\* another record
PageRender(n, k) ==
  /\ GridPageRuns /\ container # "replaced" /\ nodeKey[n] # k /\ KeyFree(k)
  /\ nodeKey' = [nodeKey EXCEPT ![n] = k]
  /\ UNCHANGED container
  /\ pageRest

PageUnrender(n) ==
  /\ GridPageRuns /\ nodeKey[n] # 0
  /\ nodeKey' = [nodeKey EXCEPT ![n] = 0]
  /\ UNCHANGED container
  /\ pageRest

\* a child node that carries no React instance property
PageBareNode(n) ==
  /\ GridPageRuns /\ container # "replaced" /\ nodeKey[n] # -1
  /\ nodeKey' = [nodeKey EXCEPT ![n] = -1]
  /\ UNCHANGED container
  /\ pageRest

\* the page puts another container in place of the one iteratePins resolved;
\* the resolved node keeps the children it had, they are no longer rendered into
PageReplaceContainer ==
  /\ mode = "grid" /\ pc \in {"g_scrolled", "g_yield"}
  /\ container = "match"
  /\ container' = "replaced"
  /\ UNCHANGED nodeKey
  /\ pageRest

NextGrid ==
  \/ HostStep
  \/ G_Start \/ G_WrongContainer \/ G_Item \/ G_Yield \/ G_Resume \/ G_Pass \/ G_Retry
  \/ StepDone
  \/ \E n \in Nodes, k \in Keys : PageRender(n, k)
  \/ \E n \in Nodes : PageUnrender(n)
  \/ \E n \in Nodes : PageBareNode(n)
  \/ PageReplaceContainer

SpecGrid == InitGrid /\ [][NextGrid]_vars

\* a statement of iteratePins or consumePins runs: while a request is being
\* served these are the only steps that move the generator or settle the
\* request, and one of them is always possible (scrollIntoViewWithDelay
\* resolves after its delay, every other statement is synchronous)
GridAdvances ==
  /\ GridRunning
  /\ pc' \in {"start", "g_item", "g_scrolled", "g_yield", "g_pass", "g_retry", "done"}
  /\ pending' \in BOOLEAN

\* the Grid session of a host that keeps calling the step handler
SpecGridLive ==
  InitGrid /\ [][NextGrid]_vars /\ WF_vars(HostStep) /\ WF_<<pc, pending>>(GridAdvances)

-----------------------------------------------------------------------------
(* clickAndWaitFor(elem, predicate), called once with either kind of element *)
(* and either of the two predicates the Tweet class passes to it, on a page  *)
(* whose location changes at any time.                                       *)

\* click(elem): elem != null -> dispatch mouseover, elem.click(), return true
click(elem) == elem # "null"

\* the timer callback without clearInterval(int)
clearIntervalOmitted(armed) == armed

\* clearInterval(int)
clearInterval(armed) == FALSE

\* the predicates of openFullTweet (document.baseURI.endsWith(permalinkPath))
\* and closeFullTweetOverlay (document.baseURI === this._baseURI)
locationIs(u, target) == u = target

InitClick ==
  /\ mode = "click"
  /\ impl = "TL" /\ outlinks = <<>> /\ urlProto = AboutProtocol
  /\ feed = <<>> /\ how = "none" /\ opRaised = FALSE
  /\ IdleTraversal
  /\ cwElem \in {"null", "elem"} /\ cwPred \in 0..MaxElems
  /\ timer = FALSE /\ evals = 0 /\ cwResult = "none"
  /\ IdleHost

clickRest ==
  UNCHANGED <<mode, colVars, stepVars, hostVars, loc, cls, openReq, closeReq, tweets, cur, snap, idx,
              visits, lastCanScroll, stepPlayed, nestedExit, signals, dismissed, gridVars>>

\* const clicked = click(elem); if (clicked) await waitForPredicate(predicate);
\* return clicked;   waitForPredicate arms the interval
CW_Call ==
  /\ mode = "click" /\ cwResult = "none" /\ ~timer /\ clicks = 0
  /\ IF click(cwElem)
     THEN /\ clicks' = clicks + 1
          /\ timer' = TRUE
          /\ UNCHANGED cwResult
     ELSE /\ cwResult' = "false"
          /\ UNCHANGED <<clicks, timer>>
  /\ UNCHANGED <<cwElem, cwPred, evals, uri>>
  /\ clickRest

\* the interval fires: if (predicate()) { clearInterval(int); resolve(); }
CW_Poll ==
  /\ mode = "click" /\ timer /\ evals < MaxPolls
  /\ evals' = evals + 1
  /\ IF locationIs(uri, cwPred)
     THEN /\ timer' = clearInterval(timer)
          /\ cwResult' = IF cwResult = "none" THEN "true" ELSE cwResult
     ELSE UNCHANGED <<timer, cwResult>>
  /\ UNCHANGED <<cwElem, cwPred, clicks, uri>>
  /\ clickRest

\* the page's location changes
CW_Navigate(u) ==
  /\ mode = "click" /\ u # uri
  /\ uri' = u
  /\ UNCHANGED <<cwVars, clicks>>
  /\ clickRest

NextClick ==
  \/ CW_Call
  \/ CW_Poll
  \/ \E u \in 0..MaxElems : CW_Navigate(u)

\* the Timeline runner, and clickAndWaitFor on its own
SpecWait == (InitTimeline \/ InitClick) /\ [][NextTimeline \/ NextClick]_vars

-----------------------------------------------------------------------------
(* Either runner *)

Init == InitTimeline \/ InitGrid

Next ==
  \/ HostStep
  \/ T_Start \/ T_Loop \/ T_Scrolled \/ T_ResumeVideo \/ T_View \/ T_OpenPoll
  \/ T_NestedBegin \/ T_NestedItem \/ T_NestedScrolled \/ T_ResumeNested
  \/ T_NestedDelay \/ T_ResumeRegular \/ T_Close \/ T_ClosePoll
  \/ T_Requery \/ T_Delay \/ T_Cond
  \/ PageAppend \/ PageLoadReply \/ PageClearOverlay \/ PageOpen \/ PageClose
  \/ G_Start \/ G_WrongContainer \/ G_Item \/ G_Yield \/ G_Resume \/ G_Pass \/ G_Retry
  \/ \E n \in Nodes, k \in Keys : PageRender(n, k)
  \/ \E n \in Nodes : PageUnrender(n)
  \/ \E n \in Nodes : PageBareNode(n)
  \/ PageReplaceContainer
  \/ StepDone

Spec == Init /\ [][Next]_vars

-----------------------------------------------------------------------------
(* A host that does not await a step before it asks for the next *)

\* const next = await $WRTweetIterator$.next(): the place in the generator's
\* queue of the request it takes up next, of n waiting ones (the oldest)
queueHead(n) == 1

canResumeAlways(executing) == TRUE

\* a request is taken from the queue only while the generator is not executing
canResume(executing) == ~executing

\* the host calls $WRIteratorHandler$() before an earlier call has resolved:
\* next() enqueues the request and returns its promise
HostStepOverlapping ==
  /\ mode \in {"timeline", "grid"}
  /\ pending \/ queued > 0
  /\ queued < MaxQueued
  /\ queued' = queued + 1
  /\ UNCHANGED <<mode, cwVars, overtaken, colVars, stepVars, pageVars, tlVars, gridVars>>

\* the generator, having settled a request, takes up the next one of its queue
ResumeNext ==
  /\ mode \in {"timeline", "grid"}
  /\ queued > 0
  /\ canResume(pending)
  /\ pending' = TRUE
  /\ overtaken' = queueHead(queued) - 1
  /\ queued' = queued - 1
  /\ stepPlayed' = FALSE
  /\ clicks' = 0
  /\ UNCHANGED <<mode, cwVars, gridVars, colVars, pc, ret, afterDone, raised, pageVars, tweets, cur, snap,
                 idx, visits, lastCanScroll, nestedExit, signals, dismissed>>

NextOverlapping == Next \/ HostStepOverlapping \/ ResumeNext

SpecOverlapping == Init /\ [][NextOverlapping]_vars

-----------------------------------------------------------------------------
(* Claims about the traversals *)

NestedPcs == {"nested_begin", "nested_item", "n_scrolled", "y_nested", "n_delay"}

TimelineDone == mode = "timeline" /\ pc = "done" /\ ~raised

\* C1 (as stated): when the Timeline step first returns done, the latest
\* top-level enumeration was empty and canScrollMore() was false, so no
\* enumerated unit is left unvisited.
C1_StopsOnlyWhenEmptyAndNoScroll ==
  TimelineDone => (tweets = <<>> /\ ~lastCanScroll)

\* C1 (amended): when the Timeline step first returns done without a fatal
\* condition, the latest top-level enumeration was empty or canScrollMore() was
\* false: the loop goes on only while both hold.
C1_StopsWhenEmptyOrNoScroll ==
  TimelineDone => (tweets = <<>> \/ ~lastCanScroll)

\* done was returned although the latest enumeration found unvisited tweets
C1_Witness == TimelineDone /\ tweets # <<>> /\ ~lastCanScroll /\ ret.done

ReturnedDone == ret.kind = "value" /\ ret.done

\* C2: once a step has returned done = true, every later step returns done =
\* true and wait = false, and nothing is marked, scrolled, clicked, yielded or
\* added to the registry any more.
C2_DoneIsFinal ==
  [][ReturnedDone =>
        /\ ret'.kind = "value" /\ ret'.done /\ ~ret'.wait
        /\ pc' = pc
        /\ cls' = cls /\ visits' = visits /\ clicks' <= clicks
        /\ outlinks' = outlinks
        /\ seenPins' = seenPins /\ yielded' = yielded
        /\ yieldedTwice' = yieldedTwice]_vars

\* a step issued after done has been answered
C2_Witness == ReturnedDone /\ afterDone /\ ~pending /\ ~raised

\* C3: no element is marked and scrolled into view more than once in a
\* Timeline session.
C3_NoDoubleVisit == mode = "timeline" => \A e \in Elems : visits[e] <= 1

\* C4: the Grid traversal never yields a record whose key it yielded before.
C4_NoKeyYieldedTwice == mode = "grid" => yieldedTwice = {}

\* two records were yielded and a yielded key is rendered again in a later pass
C4_Witness ==
  /\ mode = "grid" /\ Cardinality(yielded) >= 2 /\ pc = "g_item"
  /\ \E n \in Nodes : nodeKey[n] \in yielded

\* C5: the Grid session reports done (without a fatal condition) only when the
\* last two passes or more found no new record.
C5_DoneAfterTwoEmptyPasses ==
  (mode = "grid" /\ pc = "done" /\ ~raised) => emptyRun >= 2

C5_Witness == mode = "grid" /\ pc = "done" /\ ~raised /\ Cardinality(yielded) >= 2

\* C6: an element the traversal has marked visited is returned by no later
\* evaluation of the enumeration queries.
C6_MarkedIsExcluded ==
  mode = "timeline" =>
    \A e \in Elems :
      visits[e] > 0 => (e \notin SeqToSet(TopQuery) /\ e \notin SeqToSet(OverlayQuery))

\* a marked tweet is still in the document while the timeline is enumerated again
C6_Witness ==
  /\ mode = "timeline" /\ pc = "cond"
  /\ \E e \in Elems : visits[e] > 0 /\ loc[e] = "timeline"
  /\ tweets # <<>>

Settled == mode = "timeline" /\ ~pending /\ ret.kind = "value"

\* C10 (as stated): a Timeline step returns wait = true only if it started the
\* playback of a video.
C10_WaitOnlyWhenPlayed == (Settled /\ ret.wait) => stepPlayed

\* C10 (amended): a Timeline step returns wait = true exactly when it stopped at
\* the yield after hasVideo() found the unit's video container (whether or not a
\* <video> was there to play); the nested, regular and final steps return false.
C10_WaitOnlyForVideoContainer ==
  Settled =>
    /\ ret.wait <=> pc = "y_video"
    /\ pc = "y_video" => cur.video \in {"container", "playable"}
    /\ (pc = "y_video" /\ cur.video = "playable") => stepPlayed

\* wait = true for a unit whose video container held no <video>
C10_Witness == Settled /\ ret.wait /\ cur.video = "container" /\ ~stepPlayed

Viewing == mode = "timeline" /\ cur.elem # 0

\* C11 (as stated): a unit with no reply-count-zero marker and no thread link
\* has hasDeepContent = false and is never iterated as a nested overlay.
C11_NoMarkerNoThreadIsShallow ==
  (Viewing /\ ~cur.zeroMarker /\ ~cur.threadLink) =>
    (~hasRepliedOrInThread(cur) /\ pc \notin NestedPcs)

\* C11 (amended): hasDeepContent is "no zero-replies marker, or a thread link";
\* a unit that carries the zero-replies marker and no thread link has
\* hasDeepContent = false and never enters the nested iteration, and only units
\* with hasDeepContent enter it.
C11_DeepContentDerivation ==
  Viewing =>
    /\ hasRepliedOrInThread(cur) <=> (~cur.zeroMarker \/ cur.threadLink)
    /\ (cur.zeroMarker /\ ~cur.threadLink) => pc \notin NestedPcs
    /\ pc \in NestedPcs => hasRepliedOrInThread(cur)

C11_Witness ==
  Viewing /\ cur.zeroMarker /\ ~cur.threadLink /\ pc = "close_wait"

DeepUnit == Viewing /\ hasRepliedOrInThread(cur)

\* the units a nested overlay traversal enumerated (debug class of line 430)
NestedMarked(e) == "wr-debug-visited-thread-reply" \in cls[e]

\* C12: the nested traversal of a unit with deep content ends only after two
\* consecutive empty enumeration passes over the overlay, the second taken
\* after the load-more click (if the button is present) and the delay; and each
\* nested unit found is marked visited exactly once.
C12_NestedEndsAfterTwoEmptyPasses ==
  /\ (DeepUnit /\ pc = "close") => nestedExit \in {"no_button", "after_delay"}
  /\ mode = "timeline" => \A e \in Elems : NestedMarked(e) => visits[e] = 1

\* C13: Scenario 5. When the independently queried container is not the
\* parent of the first grid item, the first step raises and no record is
\* ever yielded.
C13_WrongContainerIsFatal ==
  (mode = "grid" /\ container = "mismatch") =>
    /\ yielded = {} /\ pins = <<>>
    /\ ret.kind # "none" => raised
    /\ (ret.kind # "none" /\ ~afterDone) => ret.kind = "raise"

C13_Witness ==
  /\ mode = "grid" /\ container = "mismatch" /\ RenderedNodes # {}
  /\ ret.kind = "raise" /\ ~pending /\ ~afterDone

\* C14: once the page replaced the container resolved at session start, the
\* traversal is aborted and reads no further pass from the stale container.
C14_NoPassFromReplacedContainer == mode = "grid" => ~staleRead

PassPcs == {"start", "g_pass", "g_retry"}

\* C15: a drain pass that meets a rendered child without rendering-state
\* handle makes the pending step raise; the traversal ends there and the pass
\* yields no record.
C15_MissingHandleIsFatal ==
  [][(GridRunning /\ pc \in PassPcs /\ pc' # pc /\ \E n \in Nodes : nodeKey[n] = -1) =>
       /\ raised' /\ ret'.kind = "raise" /\ ~pending' /\ pc' = "done"
       /\ yielded' = yielded /\ pins' = pins]_vars

C15_Witness ==
  /\ mode = "grid" /\ container = "match" /\ ret.kind = "raise" /\ yielded # {}
  /\ \E n \in Nodes : nodeKey[n] = -1

\* C16: no step of the Timeline traversal raises to the host because an
\* element or affordance of a unit is absent (the Timeline generator has no
\* other source of a throw).
C16_AbsenceNeverRaises == mode = "timeline" => ~raised

\* the traversal is about to dequeue the next top-level tweet, or is past the
\* inner loop on its way to the loop condition, or has reported done
AtDequeueOrDone ==
  /\ mode = "timeline"
  /\ \/ pc = "loop" /\ tweets # <<>>
     \/ pc \in {"requery", "t_delay", "cond"}
     \/ pc = "done" /\ ~raised

\* C17 (as stated): at every dequeue of a top-level unit, and at done, the
\* overlay is closed (the location is the session's original one).
C17_OverlayClosedAtDequeue == AtDequeueOrDone => uri = 0

\* C17 (amended): once the dismiss control was clicked, the next unit is not
\* dequeued before the location was seen back at the original one; when the
\* dismiss control is absent the close is skipped and the traversal goes on at
\* the unit's permalink location.
C17_OverlayClosedWhenDismissed ==
  /\ (AtDequeueOrDone /\ dismissed # "absent") => uri = 0
  /\ (AtDequeueOrDone /\ dismissed = "absent") => uri = cur.elem
  /\ (mode = "timeline" /\ dismissed = "clicked" /\ uri # 0) => pc = "close_wait"

C17_Witness ==
  /\ mode = "timeline" /\ pc = "loop" /\ tweets # <<>>
  /\ dismissed = "clicked" /\ visits[cur.elem] = 1 /\ uri = 0

\* C18: when the nested traversal of a unit has finished, every admissible
\* link of the replies it enumerated in the overlay is in the registry.
C18_NestedLinksHarvested ==
  (DeepUnit /\ pc = "close") =>
    \A e \in Elems : (NestedMarked(e) /\ loc[e] = "overlay") =>
      \A i \in 1..Len(LinksOf(e)) :
        Admissible(Trim(LinksOf(e)[i])) => Trim(LinksOf(e)[i]) \in SeqToSet(outlinks)

\* a unit without deep content whose view has yielded its signal
RegularUnitViewed ==
  /\ Viewing /\ ~hasRepliedOrInThread(cur) /\ ~raised
  /\ pc \in {"close", "close_wait", "loop", "requery", "t_delay", "cond", "done"}

\* C19 (as stated): a unit without deep content yields exactly one progress
\* signal between its dequeue and the next dequeue, with or without video.
C19_OneSignalPerRegularUnit == RegularUnitViewed => signals = 1

\* C19 (amended): a unit without deep content is never iterated as an overlay
\* and yields one signal from its open/close view, preceded by one more signal
\* when it has a video container: two signals in that case.
C19_RegularUnitSignals ==
  /\ RegularUnitViewed => signals = (IF cur.video = "none" THEN 1 ELSE 2)
  /\ (Viewing /\ ~hasRepliedOrInThread(cur)) =>
        (pc \notin NestedPcs /\ snap = <<>> /\ signals <= 2)

C19_Witness ==
  RegularUnitViewed /\ pc = "loop" /\ cur.video = "playable" /\ signals = 2

\* the Timeline traversal awaits a clickAndWaitFor whose predicate is false
WaitingInVain ==
  /\ mode = "timeline"
  /\ \/ pc = "open_wait" /\ ~locationIs(uri, cur.elem)
     \/ pc = "close_wait" /\ ~closeDone(uri)

\* C20: clickAndWaitFor. With an absent element it resolves false and the
\* predicate is never evaluated; with a present one it clicks once and
\* resolves true only at a poll that found the predicate true, after which
\* the predicate is not evaluated again; and as long as the predicate of an
\* awaited call is false the pending step stays pending and no unit is visited.
C20_ClickAndWaitFor ==
  /\ [](mode = "click" =>
         /\ cwElem = "null" => (evals = 0 /\ clicks = 0 /\ ~timer /\ cwResult # "true")
         /\ cwElem = "elem" => cwResult # "false"
         /\ cwResult = "true" => (clicks = 1 /\ evals >= 1 /\ ~timer))
  /\ [][(mode = "click" /\ cwResult' # cwResult /\ cwElem = "elem") =>
          (cwResult' = "true" /\ timer /\ evals' = evals + 1 /\ locationIs(uri, cwPred))]_vars
  /\ [][(mode = "click" /\ cwResult # "none") => evals' = evals]_vars
  /\ [][WaitingInVain =>
          (pc' = pc /\ pending /\ pending' /\ ret' = ret /\ visits' = visits /\ tweets' = tweets)]_vars

\* the call resolved true at its second or a later poll, and the page has moved on
C20_Witness ==
  mode = "click" /\ cwResult = "true" /\ evals >= 2 /\ ~locationIs(uri, cwPred)

-----------------------------------------------------------------------------
(* Claims about the two link filters *)

OtherImpl(which) == IF which = "OLC" THEN "TL" ELSE "OLC"

\* what follows an ignore prefix in a candidate
PrefixTails == { <<>>, <<"x">>, <<"/","/","x">>, <<"h","t","t","p",":","/","/","x">> }

\* C22: the Timeline filter and the OutLinkCollector filter are equivalent.
\* The registry the filter under test built from the candidates fed so far has
\* the same members as the registry the other filter builds from the same
\* candidates, and both filters reject every candidate that starts with an
\* ignore prefix, whatever the URL object held before.
C22_FiltersEquivalent ==
  mode = "collector" =>
    /\ SeqToSet(outlinks) =
         SeqToSet(addOutLinks(OtherImpl(impl),
                              [reg |-> <<>>, proto |-> AboutProtocol], feed).reg)
    /\ feed = <<>> =>
         \A i \in 1..Len(ignored), t \in PrefixTails, proto \in good \cup {AboutProtocol} :
           /\ shouldIgnoreLink(ignored[i] \o t, proto).ignore
           /\ shouldIgnore(ignored[i] \o t, proto).ignore

\* the Timeline filter has been fed prefixed, unparseable and good candidates
C22_Witness ==
  /\ mode = "collector" /\ impl = "TL" /\ how = "batch"
  /\ {S_javascript, S_brace, S_https_b_padded, S_HTTP_x} \subseteq SeqToSet(feed)
  /\ Len(outlinks) = 2

-----------------------------------------------------------------------------
(* Claims about a traversal that failed *)

\* C24: after a step has raised, the traversal is finished: every later step
\* resolves done = true without raising, and nothing is visited, marked,
\* harvested, enumerated or yielded any more.
C24_FinishedAfterRaise ==
  [][raised =>
       /\ raised' /\ pc = "done" /\ pc' = "done"
       /\ ret' # ret => (ret'.kind = "value" /\ ret'.done /\ ~ret'.wait)
       /\ cls' = cls /\ visits' = visits /\ tweets' = tweets /\ outlinks' = outlinks
       /\ clicks' <= clicks /\ signals' = signals
       /\ pins' = pins /\ seenPins' = seenPins /\ yielded' = yielded]_vars

\* a Grid pass failed after it had marked a key seen; later steps were answered
\* done and the key was never yielded
C24_Witness ==
  /\ mode = "grid" /\ raised /\ afterDone /\ ~pending
  /\ ret.kind = "value" /\ ret.done
  /\ seenPins \ yielded # {}


-----------------------------------------------------------------------------
(* Overlapping calls of the step handler *)

InFlight == (IF pending THEN 1 ELSE 0) + queued

Resolves == pending /\ ~pending'

-----------------------------------------------------------------------------
(* Completeness of the Grid traversal *)

\* the keys of the pins consumePins has still to yield
Queued ==
  {pins[i].key : i \in {j \in 1..Len(pins) : j > gi \/ (j = gi /\ pc \in {"g_item", "g_scrolled"})}}

\* C23: in a Grid session without a fatal condition whose host keeps stepping,
\* every key a pass adds to seenPins is yielded, and yielded once: until then
\* the key is one of the pins consumePins has still to yield, and no key has
\* been yielded a second time.
C23_SeenKeysAreYielded ==
  /\ []((mode = "grid" /\ ~raised) =>
          /\ seenPins \ yielded \subseteq Queued
          /\ yielded \subseteq seenPins
          /\ yieldedTwice = {})
  /\ \A k \in Keys : (k \in seenPins) ~> (k \in yielded \/ raised)

C23_Witness ==
  /\ mode = "grid" /\ ~raised /\ pc = "done" /\ ret.kind = "value" /\ ret.done
  /\ phase = 2 /\ Cardinality(seenPins) = MaxKeys /\ yielded = seenPins

====
